---- MODULE Spec2Model ----
(***************************************************************************)
(* autojson: NewHandler(service, methodName) classifies the parameters and *)
(* return values of one method by their types and returns an               *)
(* http.HandlerFunc that binds the arguments from the request, calls the   *)
(* method and writes its results as the response.                          *)
(*                                                                         *)
(* src/autojson.go holds three revisions of the package, one after the     *)
(* other: lines 1-211 (reflect_in / reflect_out), lines 213-416            *)
(* (reflectArgs / reflectReturns) and lines 418-602 (the classification    *)
(* loops inline in NewHandler).  The variable rev says which one runs.     *)
(* The returned handler is the same text in the three, up to the names of  *)
(* its locals; its definitions below cite the first copy.                  *)
(*                                                                         *)
(* Go indexes are kept as they are (receiver at 0, -1 for "no slot"); the  *)
(* TLA+ sequences are 1-based, so Go index i is element i + 1.             *)
(***************************************************************************)
EXTENDS Integers, Sequences, FiniteSets, TLC

\* Bounds of the model: parameters besides the receiver, return values.
MaxIn == 2
MaxOut == 2

VARIABLES
    rev,        \* which revision of the package runs: 1, 2 or 3
    found,      \* whether the service's method set holds methodName
    method_ft,  \* method.Type: [In |-> parameter types, receiver first, Out |-> return types]
    reg,        \* "none" before NewHandler ran, "ok" once it returned a handler, else its panic
    in,         \* the parameter indexes NewHandler computed
    out,        \* the return indexes NewHandler computed
    pc,         \* where the handler is: idle, bind, call, resolve, encode, done, panic
    body,       \* r.Body: what the request carries
    w,          \* the response as the client receives it
    args,       \* the reflect.Value argument list
    res_vals,   \* what method_fv.Call returned
    calls,      \* how often the method ran for this request
    derr,       \* the decoder's error for this request, "" when none
    wRet,       \* the response when the method call returned
    coreLog,    \* the calls the handler itself made on w for this request
    enc,        \* the JSON encoding of the result: none, ok, fail
    logged      \* whether the handler called log.Printf for this request

vars == <<rev, found, method_ft, reg, in, out, pc, body, w, args, res_vals,
          calls, derr, wRet, coreLog, enc, logged>>

statics == <<rev, found, method_ft>>
plan == <<reg, in, out>>
perRequest == <<pc, body, w, args, res_vals, calls, derr, wRet, coreLog, enc, logged>>

(***************************************************************************)
(* Types.  reflect.Type values are compared with ==; a type is modelled by *)
(* its Go name.                                                            *)
(***************************************************************************)
type_error == "error"
type_context == "context.Context"
type_int == "int"
type_http_res == "http.ResponseWriter"
type_http_req == "http.Request"

\* the other types the test service declares
type_http_req_ptr == "*http.Request"
type_string == "string"
type_things_ptr == "*Things"
type_unencodable == "Unencodable"
type_service == "Service"

ParamTypes ==
    {type_context, type_http_res, type_http_req, type_http_req_ptr,
     type_string, type_things_ptr}

ReturnTypes == {type_error, type_int, type_string, type_unencodable}

SeqsUpTo(S, n) == UNION {[1..k -> S] : k \in 0..n}

Signatures ==
    {[In |-> <<type_service>> \o ps, Out |-> os] :
        ps \in SeqsUpTo(ParamTypes, MaxIn), os \in SeqsUpTo(ReturnTypes, MaxOut)}

NumIn(f) == Len(f.In)
NumOut(f) == Len(f.Out)
In(f, i) == f.In[i + 1]
Out(f, i) == f.Out[i + 1]

\* reflect.Type.Kind() == reflect.Ptr
IsPtrKind(t) == t \in {type_http_req_ptr, type_things_ptr}

\* the type of reflect.New(t): a pointer to t
PtrTo(t) == "*" \o t

(***************************************************************************)
(* Revision 1: reflect_in, reflect_out.                                    *)
(***************************************************************************)
RECURSIVE reflect_in_loop(_, _, _)
reflect_in_loop(f, i, r) ==
    IF ~(i < NumIn(f)) THEN [r |-> r, err |-> ""]
    ELSE IF r.ctx = -1 /\ In(f, i) = type_context
        THEN reflect_in_loop(f, i + 1, [r EXCEPT !.ctx = i])
    ELSE IF r.http_req = -1 /\ In(f, i) = type_http_req
        THEN reflect_in_loop(f, i + 1, [r EXCEPT !.http_req = i])
    ELSE IF r.http_res = -1 /\ In(f, i) = type_http_res
        THEN reflect_in_loop(f, i + 1, [r EXCEPT !.http_res = i])
    ELSE IF r.req = -1
        THEN reflect_in_loop(f, i + 1, [r EXCEPT !.req = i])
    ELSE [r |-> r, err |-> "Too many arguments"]

\* a parameter pass whose context case lacks its continue: the context
\* parameter falls through and is taken as the body parameter too
RECURSIVE reflect_in_fallthrough_loop(_, _, _)
reflect_in_fallthrough_loop(f, i, r) ==
    IF ~(i < NumIn(f)) THEN [r |-> r, err |-> ""]
    ELSE IF r.ctx = -1 /\ In(f, i) = type_context
        THEN IF r.req = -1
            THEN reflect_in_fallthrough_loop(f, i + 1, [r EXCEPT !.ctx = i, !.req = i])
            ELSE [r |-> [r EXCEPT !.ctx = i], err |-> "Too many arguments"]
    ELSE IF r.http_req = -1 /\ In(f, i) = type_http_req
        THEN reflect_in_fallthrough_loop(f, i + 1, [r EXCEPT !.http_req = i])
    ELSE IF r.http_res = -1 /\ In(f, i) = type_http_res
        THEN reflect_in_fallthrough_loop(f, i + 1, [r EXCEPT !.http_res = i])
    ELSE IF r.req = -1
        THEN reflect_in_fallthrough_loop(f, i + 1, [r EXCEPT !.req = i])
    ELSE [r |-> r, err |-> "Too many arguments"]

reflect_in_fallthrough(f) ==
    reflect_in_fallthrough_loop(f, 1, [ctx |-> -1, req |-> -1, http_req |-> -1, http_res |-> -1])

reflect_in(f) ==
    reflect_in_loop(f, 1, [ctx |-> -1, req |-> -1, http_req |-> -1, http_res |-> -1])

RECURSIVE reflect_out_loop(_, _, _)
reflect_out_loop(f, i, r) ==
    IF ~(i < NumOut(f)) THEN [r |-> r, err |-> ""]
    ELSE IF r.err = -1 /\ Out(f, i) = type_error
        THEN reflect_out_loop(f, i + 1, [r EXCEPT !.err = i])
    ELSE IF r.code = -1 /\ Out(f, i) = type_int
        THEN reflect_out_loop(f, i + 1, [r EXCEPT !.code = i])
    ELSE IF r.res = -1
        THEN reflect_out_loop(f, i + 1, [r EXCEPT !.res = i])
    ELSE [r |-> r, err |-> "Too many return values"]

\* a return pass without the "each role once" tests: every int is the code
RECURSIVE reflect_out_lastwins_loop(_, _, _)
reflect_out_lastwins_loop(f, i, r) ==
    IF ~(i < NumOut(f)) THEN [r |-> r, err |-> ""]
    ELSE IF Out(f, i) = type_error
        THEN reflect_out_lastwins_loop(f, i + 1, [r EXCEPT !.err = i])
    ELSE IF Out(f, i) = type_int
        THEN reflect_out_lastwins_loop(f, i + 1, [r EXCEPT !.code = i])
    ELSE IF r.res = -1
        THEN reflect_out_lastwins_loop(f, i + 1, [r EXCEPT !.res = i])
    ELSE [r |-> r, err |-> "Too many return values"]

reflect_out_lastwins(f) ==
    reflect_out_lastwins_loop(f, 0, [res |-> -1, err |-> -1, code |-> -1])

reflect_out(f) ==
    reflect_out_loop(f, 0, [res |-> -1, err |-> -1, code |-> -1])

(***************************************************************************)
(* Revision 2: reflectArgs, reflectReturns.  httpReq takes the index of    *)
(* the http.ResponseWriter parameter and httpRes that of the http.Request  *)
(* parameter.                                                              *)
(***************************************************************************)
RECURSIVE reflectArgs_loop(_, _, _)
reflectArgs_loop(f, i, r) ==
    IF ~(i < NumIn(f)) THEN [r |-> r, err |-> ""]
    ELSE IF r.ctx = -1 /\ In(f, i) = type_context
        THEN reflectArgs_loop(f, i + 1, [r EXCEPT !.ctx = i])
    ELSE IF r.httpReq = -1 /\ In(f, i) = type_http_res
        THEN reflectArgs_loop(f, i + 1, [r EXCEPT !.httpReq = i])
    ELSE IF r.httpRes = -1 /\ In(f, i) = type_http_req
        THEN reflectArgs_loop(f, i + 1, [r EXCEPT !.httpRes = i])
    ELSE IF r.req = -1
        THEN reflectArgs_loop(f, i + 1, [r EXCEPT !.req = i])
    ELSE [r |-> r, err |-> "Too many arguments"]

reflectArgs(f) ==
    reflectArgs_loop(f, 1, [ctx |-> -1, req |-> -1, httpReq |-> -1, httpRes |-> -1])

RECURSIVE reflectReturns_loop(_, _, _)
reflectReturns_loop(f, i, r) ==
    IF ~(i < NumOut(f)) THEN [r |-> r, err |-> ""]
    ELSE IF r.err = -1 /\ Out(f, i) = type_error
        THEN reflectReturns_loop(f, i + 1, [r EXCEPT !.err = i])
    ELSE IF r.code = -1 /\ Out(f, i) = type_int
        THEN reflectReturns_loop(f, i + 1, [r EXCEPT !.code = i])
    ELSE IF r.res = -1
        THEN reflectReturns_loop(f, i + 1, [r EXCEPT !.res = i])
    ELSE [r |-> r, err |-> "Too many return values"]

reflectReturns(f) ==
    reflectReturns_loop(f, 0, [res |-> -1, err |-> -1, code |-> -1])

(***************************************************************************)
(* Revision 3: the two loops inline in NewHandler, over the locals in_ctx, *)
(* in_req, in_http_req, in_http_res and out_res, out_err, out_code; the    *)
(* locals are gathered in records with the fields of revision 1.           *)
(***************************************************************************)
RECURSIVE inline_in_loop(_, _, _)
inline_in_loop(f, i, r) ==
    IF ~(i < NumIn(f)) THEN [r |-> r, err |-> ""]
    ELSE IF r.ctx = -1 /\ In(f, i) = type_context
        THEN inline_in_loop(f, i + 1, [r EXCEPT !.ctx = i])
    ELSE IF r.http_req = -1 /\ In(f, i) = type_http_req
        THEN inline_in_loop(f, i + 1, [r EXCEPT !.http_req = i])
    ELSE IF r.http_res = -1 /\ In(f, i) = type_http_res
        THEN inline_in_loop(f, i + 1, [r EXCEPT !.http_res = i])
    ELSE IF r.req = -1
        THEN inline_in_loop(f, i + 1, [r EXCEPT !.req = i])
    ELSE [r |-> r, err |-> "too many arguments"]

inline_in(f) ==
    inline_in_loop(f, 1, [ctx |-> -1, req |-> -1, http_req |-> -1, http_res |-> -1])

RECURSIVE inline_out_loop(_, _, _)
inline_out_loop(f, i, r) ==
    IF ~(i < NumOut(f)) THEN [r |-> r, err |-> ""]
    ELSE IF r.err = -1 /\ Out(f, i) = type_error
        THEN inline_out_loop(f, i + 1, [r EXCEPT !.err = i])
    ELSE IF r.code = -1 /\ Out(f, i) = type_int
        THEN inline_out_loop(f, i + 1, [r EXCEPT !.code = i])
    ELSE IF r.res = -1
        THEN inline_out_loop(f, i + 1, [r EXCEPT !.res = i])
    ELSE [r |-> r, err |-> "too many return values"]

inline_out(f) ==
    inline_out_loop(f, 0, [res |-> -1, err |-> -1, code |-> -1])

\* the classification the running revision makes
ClassifyIn(f) ==
    IF rev = 1 THEN reflect_in(f) ELSE IF rev = 2 THEN reflectArgs(f) ELSE inline_in(f)

ClassifyOut(f) ==
    IF rev = 1 THEN reflect_out(f) ELSE IF rev = 2 THEN reflectReturns(f) ELSE inline_out(f)

\* the index the handler fills with r, and the one it fills with w
SlotOfR(ix) == IF rev = 2 THEN ix.httpReq ELSE ix.http_req
SlotOfW(ix) == IF rev = 2 THEN ix.httpRes ELSE ix.http_res

NoIn ==
    IF rev = 2 THEN [ctx |-> -1, req |-> -1, httpReq |-> -1, httpRes |-> -1]
    ELSE [ctx |-> -1, req |-> -1, http_req |-> -1, http_res |-> -1]

NoOut == [res |-> -1, err |-> -1, code |-> -1]

(***************************************************************************)
(* Values.  A reflect.Value or interface value is its dynamic type, whether *)
(* it is nil, and its integer or its text.                                 *)
(***************************************************************************)
Val(t, s) == [t |-> t, isnil |-> FALSE, i |-> 0, s |-> s]
IntVal(n) == [t |-> type_int, isnil |-> FALSE, i |-> n, s |-> ""]
NilOf(t) == [t |-> t, isnil |-> TRUE, i |-> 0, s |-> ""]

\* the zero reflect.Value of make([]reflect.Value, n)
ZeroValue == [t |-> "invalid", isnil |-> TRUE, i |-> 0, s |-> ""]

service_v == Val(type_service, "service")
CtxVal == Val(type_context, "r.Context()")
ReqVal == Val(type_http_req_ptr, "r")
ResVal == Val(type_http_res, "w")

\* what the test service's methods return, by declared type
RetVals(t) ==
    IF t = type_error THEN {NilOf(type_error), Val(type_error, "hi1")}
    ELSE IF t = type_int THEN {IntVal(0), IntVal(-1), IntVal(666)}
    ELSE IF t = type_string THEN {Val(type_string, "Hi")}
    ELSE {NilOf(type_unencodable)}

AllRetVals == UNION {RetVals(t) : t \in ReturnTypes}

ReturnLists(f) ==
    {rv \in [1..NumOut(f) -> AllRetVals] : \A k \in 1..NumOut(f) : rv[k] \in RetVals(f.Out[k])}

(***************************************************************************)
(* encoding/json, as the handler uses it.                                  *)
(***************************************************************************)
Bodies == {"", "yo", "\"sup\"", "{}"}

\* json.NewDecoder(r.Body).Decode(in_i), in_i a pointer to a fresh value of type t
Decode(b, t) ==
    IF b = "" THEN [err |-> "EOF", s |-> ""]
    ELSE IF b = "yo"
        THEN [err |-> "invalid character 'y' looking for beginning of value", s |-> ""]
    ELSE IF b = "\"sup\""
        THEN IF t = type_string THEN [err |-> "", s |-> "sup"]
             ELSE [err |-> "json: cannot unmarshal string into Go value of type " \o t, s |-> ""]
    ELSE IF t \in {type_http_req, type_http_req_ptr, type_things_ptr}
        THEN [err |-> "", s |-> "{}"]
        ELSE [err |-> "json: cannot unmarshal object into Go value of type " \o t, s |-> ""]

\* json.NewEncoder(w).Encode(v): the bytes of one Write, or the error
jsonEncode(v) ==
    IF v.t = type_unencodable
        THEN [err |-> "json: unsupported type: autojson.Unencodable", bytes |-> ""]
    ELSE IF v.isnil THEN [err |-> "", bytes |-> "null\n"]
    ELSE IF v.t = type_int THEN [err |-> "", bytes |-> ToString(v.i) \o "\n"]
    ELSE IF v.t = type_string THEN [err |-> "", bytes |-> "\"" \o v.s \o "\"\n"]
    ELSE [err |-> "", bytes |-> "{}\n"]

(***************************************************************************)
(* net/http's ResponseWriter, as the client sees it: the header map counts *)
(* until the status line is written, the first WriteHeader wins, and a     *)
(* Write before any WriteHeader writes status 200.                         *)
(***************************************************************************)
HeaderKeys == {"Content-Type", "X-Content-Type-Options", "X-Header-Test"}

NewResponse ==
    [wroteHeader |-> FALSE, status |-> 0,
     header |-> [k \in HeaderKeys |-> ""], body |-> <<>>]

SetHeader(rw, k, v) ==
    IF rw.wroteHeader THEN rw ELSE [rw EXCEPT !.header[k] = v]

WriteHeader(rw, code) ==
    IF rw.wroteHeader THEN rw ELSE [rw EXCEPT !.wroteHeader = TRUE, !.status = code]

Write(rw, data) ==
    [WriteHeader(rw, 200) EXCEPT !.body = Append(@, data)]

\* the same three calls, made by the handler: each is appended to the log
LogEntry(op, key, val, code) == [op |-> op, key |-> key, val |-> val, code |-> code]

coreSet(c, k, v) ==
    [w |-> SetHeader(c.w, k, v), log |-> Append(c.log, LogEntry("Set", k, v, 0))]

coreWriteHeader(c, code) ==
    [w |-> WriteHeader(c.w, code), log |-> Append(c.log, LogEntry("WriteHeader", "", "", code))]

coreWrite(c, data) ==
    [w |-> Write(c.w, data), log |-> Append(c.log, LogEntry("Write", "", data, 0))]

\* http.Error(w, msg, code)
httpError(c, msg, code) ==
    coreWrite(
        coreWriteHeader(
            coreSet(coreSet(c, "Content-Type", "text/plain; charset=utf-8"),
                    "X-Content-Type-Options", "nosniff"),
            code),
        msg \o "\n")

\* what a method does with the http.ResponseWriter it was handed
MethodWrites == {"none", "header", "full"}

MethodWrite(rw, how) ==
    IF how = "header" THEN SetHeader(rw, "X-Header-Test", "coolio")
    ELSE IF how = "full"
        THEN Write(WriteHeader(SetHeader(rw, "Content-Type", "text/plain"), 201),
                   "A plain text response")
    ELSE rw

(***************************************************************************)
(* The state after construction: one revision, one service method (or a    *)
(* name the service does not have), NewHandler not yet called.             *)
(***************************************************************************)
NoMethod == [In |-> <<type_service>>, Out |-> <<>>]

Init ==
    /\ rev \in {1, 2, 3}
    /\ found \in BOOLEAN
    /\ method_ft \in (IF found THEN Signatures ELSE {NoMethod})
    /\ reg = "none"
    /\ in = NoIn
    /\ out = NoOut
    /\ pc = "idle"
    /\ body = ""
    /\ w = NewResponse
    /\ args = <<>>
    /\ res_vals = <<>>
    /\ calls = 0
    /\ derr = ""
    /\ wRet = NewResponse
    /\ coreLog = <<>>
    /\ enc = "none"
    /\ logged = FALSE

(***************************************************************************)
(* NewHandler, up to the return of the handler: MethodByName, then the     *)
(* parameter pass, then the return pass; each failure panics.              *)
(***************************************************************************)
NewHandler ==
    /\ reg = "none"
    /\ IF ~found
        THEN reg' = "no method" /\ UNCHANGED <<in, out>>
        ELSE IF ClassifyIn(method_ft).err # ""
            THEN reg' = ClassifyIn(method_ft).err /\ UNCHANGED <<in, out>>
        ELSE IF ClassifyOut(method_ft).err # ""
            THEN /\ reg' = ClassifyOut(method_ft).err
                 /\ in' = ClassifyIn(method_ft).r
                 /\ UNCHANGED out
        ELSE /\ reg' = "ok"
             /\ in' = ClassifyIn(method_ft).r
             /\ out' = ClassifyOut(method_ft).r
    /\ UNCHANGED <<statics, perRequest>>

(***************************************************************************)
(* The server hands the handler a request: a fresh response, a body.       *)
(***************************************************************************)
Request ==
    /\ reg = "ok"
    /\ pc \in {"idle", "done", "panic"}
    /\ body' \in Bodies
    /\ pc' = "bind"
    /\ w' = NewResponse
    /\ args' = [k \in 1..NumIn(method_ft) |-> ZeroValue]
    /\ res_vals' = <<>>
    /\ calls' = 0
    /\ derr' = ""
    /\ wRet' = NewResponse
    /\ coreLog' = <<>>
    /\ enc' = "none"
    /\ logged' = FALSE
    /\ UNCHANGED <<statics, plan>>

(***************************************************************************)
(* The handler, first part: the argument list.                             *)
(***************************************************************************)
StatusBadRequest == 400

\* a handler that goes on after a decoding error
DecodeFailedIgnored(d) == FALSE

\* if err != nil, after d.Decode(in_i)
DecodeFailed(d) == d.err # ""

\* args[k] = v for Go index k, when k is a slot
SetArg(a, k, v) == IF k # -1 THEN [a EXCEPT ![k + 1] = v] ELSE a

\* args after the context, the request and the response writer are filled in
BoundHandles ==
    SetArg(SetArg(SetArg([args EXCEPT ![1] = service_v],
                         in.ctx, CtxVal),
                  SlotOfR(in), ReqVal),
           SlotOfW(in), ResVal)

\* the decoded body as the argument: in_v for a pointer type, in_v.Elem() otherwise
BodyArg(in_f, s) ==
    IF IsPtrKind(in_f) THEN Val(PtrTo(in_f), s) ELSE Val(in_f, s)

Bind ==
    /\ pc = "bind"
    /\ IF in.req # -1
        THEN LET in_f == In(method_ft, in.req)
                 d == Decode(body, in_f)
             IN IF DecodeFailed(d)
                 THEN LET c == httpError([w |-> w, log |-> coreLog], d.err, StatusBadRequest)
                      IN /\ w' = c.w
                         /\ coreLog' = c.log
                         /\ derr' = d.err
                         /\ args' = BoundHandles
                         /\ pc' = "done"
                 ELSE /\ args' = SetArg(BoundHandles, in.req, BodyArg(in_f, d.s))
                      /\ pc' = "call"
                      /\ UNCHANGED <<w, coreLog, derr>>
        ELSE /\ args' = BoundHandles
             /\ pc' = "call"
             /\ UNCHANGED <<w, coreLog, derr>>
    /\ UNCHANGED <<statics, plan, body, res_vals, calls, wRet, enc, logged>>

(***************************************************************************)
(* method_fv.Call(args).  reflect panics, before the method runs, when an   *)
(* argument is not assignable to its parameter; the method may fault; else  *)
(* it returns values of its declared types, having used the response       *)
(* writer if it was handed one.  A panic leaves the handler.               *)
(***************************************************************************)
Assignable(a, f) == \A k \in 1..NumIn(f) : a[k].t = f.In[k]

HandedWriter(a, f) == \E k \in 1..NumIn(f) : a[k] = ResVal /\ f.In[k] = type_http_res

Call ==
    /\ pc = "call"
    /\ IF ~Assignable(args, method_ft)
        THEN /\ pc' = "panic"
             /\ UNCHANGED <<w, res_vals, calls, wRet>>
        ELSE \E fault \in BOOLEAN :
             \E rv \in ReturnLists(method_ft) :
             \E how \in (IF HandedWriter(args, method_ft) THEN MethodWrites ELSE {"none"}) :
                /\ calls' = calls + 1
                /\ w' = MethodWrite(w, how)
                /\ wRet' = w'
                /\ IF fault
                    THEN pc' = "panic" /\ UNCHANGED res_vals
                    ELSE pc' = "resolve" /\ res_vals' = rv
    /\ UNCHANGED <<statics, plan, body, args, derr, coreLog, enc, logged>>

(***************************************************************************)
(* The handler, second part: the results, the status, the response.        *)
(***************************************************************************)
Returned == Len(res_vals) = NumOut(method_ft) /\ calls > 0 /\ pc # "panic"

v_out_code == IF out.code # -1 /\ Returned THEN res_vals[out.code + 1].i ELSE 0

v_out_err == IF out.err # -1 /\ Returned THEN res_vals[out.err + 1] ELSE NilOf(type_error)

v_out_res == IF out.res # -1 /\ Returned THEN res_vals[out.res + 1] ELSE NilOf("nil")

\* a handler without the -1 case
IsNoResponseNever(code) == FALSE

\* if v_out_code == -1 { return }
IsNoResponse(code) == code = -1

\* an error that always answers 500, whatever code the method returned
DefaultCodeErrorWins(code, errIsNil, resIdx) ==
    IF ~errIsNil THEN 500
    ELSE IF code = 0 THEN IF resIdx = -1 THEN 204 ELSE 200
    ELSE code

\* if v_out_code == 0 { ... }: 500 or 200, 204 for a method with no result
DefaultCode(code, errIsNil, resIdx) ==
    IF code = 0
        THEN IF errIsNil
            THEN IF resIdx = -1 THEN 204 ELSE 200
            ELSE 500
        ELSE code

Resolve ==
    /\ pc = "resolve"
    /\ LET code == DefaultCode(v_out_code, v_out_err.isnil, out.res)
           c0 == [w |-> w, log |-> coreLog]
           c1 == IF IsNoResponse(v_out_code) THEN c0
                 ELSE IF ~v_out_err.isnil THEN httpError(c0, v_out_err.s, code)
                 ELSE IF out.res = -1 THEN coreWriteHeader(c0, code)
                 ELSE coreWriteHeader(coreSet(c0, "Content-Type", "application/json"), code)
       IN /\ w' = c1.w
          /\ coreLog' = c1.log
          /\ pc' = IF ~IsNoResponse(v_out_code) /\ v_out_err.isnil /\ out.res # -1
                   THEN "encode" ELSE "done"
    /\ UNCHANGED <<statics, plan, body, args, res_vals, calls, derr, wRet, enc, logged>>

\* json.NewEncoder(w).Encode(v_out_res); a failure is logged and nothing is written
Encode ==
    /\ pc = "encode"
    /\ LET e == jsonEncode(v_out_res)
           c == coreWrite([w |-> w, log |-> coreLog], e.bytes)
       IN IF e.err # ""
           THEN enc' = "fail" /\ logged' = TRUE /\ UNCHANGED <<w, coreLog>>
           ELSE enc' = "ok" /\ w' = c.w /\ coreLog' = c.log /\ UNCHANGED logged
    /\ pc' = "done"
    /\ UNCHANGED <<statics, plan, body, args, res_vals, calls, derr, wRet>>

Next == NewHandler \/ Request \/ Bind \/ Call \/ Resolve \/ Encode

Spec == Init /\ [][Next]_vars

(***************************************************************************)
(* Properties.                                                             *)
(***************************************************************************)
\* the response was untouched when the method call returned
MethodLeftResponse == ~wRet.wroteHeader

CoreStatusCodes == {coreLog[k].code : k \in {j \in 1..Len(coreLog) : coreLog[j].op = "WriteHeader"}}

ErrorJSON(msg) == "{\"error\":\"" \o msg \o "\"}"

\* C1: a method with an integer status return that returns a code c other
\* than 0 and -1 has c written as the status, with a nil error and with a
\* non-nil one: the handler's one WriteHeader carries c, and c is the status
\* of the response unless the method had written a status line itself.
C1_ExplicitCodeVerbatim ==
    (pc \in {"encode", "done"} /\ Returned /\ out.code # -1 /\ v_out_code \notin {0, -1})
        => /\ CoreStatusCodes = {v_out_code}
           /\ (MethodLeftResponse => w.status = v_out_code)

C1_Witness ==
    /\ pc = "done" /\ Returned /\ out.code # -1
    /\ v_out_code = 666 /\ ~v_out_err.isnil
    /\ w.status = 666

\* C2 (as claimed): when the extracted code is unset (zero), the written
\* status is 500 with a non-nil error and 200 otherwise, with or without a
\* result return.
C2_UnsetCodeDefault ==
    (pc = "done" /\ Returned /\ v_out_code = 0 /\ MethodLeftResponse)
        => w.status = (IF v_out_err.isnil THEN 200 ELSE 500)

\* C3 (as claimed): with a non-nil error and a code other than -1 the body is
\* {"error":"<message>"} with content type application/json, and the result
\* value is not written.
C3_StructuredErrorBody ==
    (pc = "done" /\ Returned /\ ~v_out_err.isnil /\ v_out_code # -1 /\ MethodLeftResponse)
        => /\ w.header["Content-Type"] = "application/json"
           /\ w.body \in {<<ErrorJSON(v_out_err.s)>>, <<ErrorJSON(v_out_err.s) \o "\n">>}

\* C4: when the method returns code -1, the handler makes no call on the
\* response after the method returned (no header, no status, no body byte),
\* whatever the error and the result are: the response is what the method
\* left.
C4_SentinelWritesNothing ==
    (pc = "done" /\ Returned /\ v_out_code = -1)
        => /\ coreLog = <<>>
           /\ w = wRet
           /\ enc = "none"

C4_Witness ==
    /\ pc = "done" /\ Returned /\ v_out_code = -1
    /\ w.status = 201
    /\ w.body = <<"A plain text response">>

\* C5: a request whose body does not decode into the body parameter's type
\* is answered 400 with the decoder's message, and the method is not invoked
\* for it; no request invokes the method more than once.
C5_BadRequestNeverInvokes ==
    /\ calls <= 1
    /\ (/\ reg = "ok" /\ pc \notin {"idle", "bind"}
        /\ in.req # -1
        /\ Decode(body, In(method_ft, in.req)).err # "")
        => /\ pc = "done"
           /\ calls = 0
           /\ w.status = 400
           /\ w.body = <<Decode(body, In(method_ft, in.req)).err \o "\n">>

C5_Witness ==
    /\ pc = "done" /\ in.req # -1 /\ body = "yo"
    /\ calls = 0 /\ w.status = 400
    /\ w.body = <<"invalid character 'y' looking for beginning of value\n">>

\* The handle roles as the documentation names them: the context, the
\* response writer, the request (README: http.Request; the test service
\* declares *http.Request, the type of the handle the handler holds).
ClaimedRole(t) ==
    IF t = type_context THEN "context"
    ELSE IF t = type_http_res THEN "response"
    ELSE IF t \in {type_http_req, type_http_req_ptr} THEN "request"
    ELSE "none"

\* parameter i takes a handle role: it has one and no earlier parameter took it
TakesHandleRole(f, i) ==
    /\ ClaimedRole(In(f, i)) # "none"
    /\ \A j \in 1..(i - 1) : ClaimedRole(In(f, j)) # ClaimedRole(In(f, i))

LeftoverParams(f) == {i \in 1..(NumIn(f) - 1) : ~TakesHandleRole(f, i)}

LeftoverReturns(f) ==
    {i \in 0..(NumOut(f) - 1) :
        ~(Out(f, i) \in {type_error, type_int} /\ \A j \in 0..(i - 1) : Out(f, j) # Out(f, i))}

\* C6 (as claimed): NewHandler fails exactly when the method name is absent,
\* or two parameters match no special role, or two return values match
\* neither the error nor the status role; otherwise it returns a handler.
C6_RegistrationFailsExactlyWhen ==
    reg # "none"
        => (reg # "ok" <=> \/ ~found
                           \/ Cardinality(LeftoverParams(method_ft)) >= 2
                           \/ Cardinality(LeftoverReturns(method_ft)) >= 2)

\* C7 (as claimed): no status line is written before the result has been
\* serialized, and a failed serialization is answered 500 with the body
\* {"error":"<codec message>"}.
C7_SerializeBeforeStatus ==
    /\ (Returned /\ v_out_code # -1 /\ v_out_err.isnil /\ out.res # -1 /\ enc = "none")
        => CoreStatusCodes = {}
    /\ (pc = "done" /\ enc = "fail" /\ MethodLeftResponse)
        => /\ w.status = 500
           /\ w.body \in {<<ErrorJSON(jsonEncode(v_out_res).err)>>,
                          <<ErrorJSON(jsonEncode(v_out_res).err) \o "\n">>}

\* C8 (as claimed): a completed request has one status line and, unless the
\* method returned -1, one complete body.  (The method's own writes are left
\* out: the cases are those where the method did not touch the response.)
C8_OneStatusOneBody ==
    (pc = "done" /\ MethodLeftResponse /\ ~(Returned /\ v_out_code = -1))
        => /\ w.wroteHeader
           /\ Len(w.body) = 1

\* what each handle parameter is to receive
HandleFor(t) ==
    IF t = type_context THEN CtxVal
    ELSE IF t = type_http_res THEN ResVal
    ELSE ReqVal

\* C9 (as claimed): the (first) parameter declared context.Context receives
\* the request's context, the one declared http.ResponseWriter the response
\* handle, the one declared *http.Request the request handle, each of the
\* declared type, and none of them is the body parameter.
C9_HandlesBoundByType ==
    reg = "ok" =>
        \A i \in 1..(NumIn(method_ft) - 1) :
            (In(method_ft, i) \in {type_context, type_http_res, type_http_req_ptr}
                /\ \A j \in 1..(i - 1) : In(method_ft, j) # In(method_ft, i))
                => /\ in.req # i
                   /\ (pc = "call" =>
                        /\ args[i + 1] = HandleFor(In(method_ft, i))
                        /\ args[i + 1].t = In(method_ft, i))

\* C10 (as claimed): a method with no result return, with no error and a
\* code other than -1, is answered with the body null at the resolved
\* status (200 without a code, else the code), never with an empty body or
\* with 204.
C10_NoResultWritesNull ==
    (pc = "done" /\ Returned /\ out.res = -1 /\ v_out_err.isnil
        /\ v_out_code # -1 /\ MethodLeftResponse)
        => /\ w.body \in {<<"null">>, <<"null\n">>}
           /\ w.status = (IF v_out_code = 0 THEN 200 ELSE v_out_code)
           /\ w.status # 204

\* the least index of a set of indexes, -1 for the empty set
LeastOr(S) == IF S = {} THEN -1 ELSE CHOOSE i \in S : \A j \in S : i <= j

FirstReturnOfType(f, t) == LeastOr({i \in 0..(NumOut(f) - 1) : Out(f, i) = t})

ReturnPanics == {"Too many return values", "too many return values"}

\* C11: in the return pass each special role is taken once, by the first
\* return of its type: the error role by the first error, the status role by
\* the first int; a later int or error is the result when the result role is
\* free, so a method returning (int, int) has its first int as the status
\* and its second int JSON-encoded as the body; the return pass fails only
\* when a return is left over with the result role taken.
C11_ReturnPassFirstMatchWins ==
    /\ reg = "ok" =>
        /\ out.err = FirstReturnOfType(method_ft, type_error)
        /\ out.code = FirstReturnOfType(method_ft, type_int)
        /\ out.res = LeastOr(LeftoverReturns(method_ft))
        /\ Cardinality(LeftoverReturns(method_ft)) <= 1
    /\ reg \in ReturnPanics => Cardinality(LeftoverReturns(method_ft)) >= 2
    /\ (/\ pc = "done" /\ Returned /\ MethodLeftResponse
        /\ NumOut(method_ft) >= 2
        /\ Out(method_ft, 0) = type_int /\ Out(method_ft, 1) = type_int
        /\ res_vals[1].i # -1 /\ v_out_err.isnil)
        => /\ w.status = (IF res_vals[1].i = 0 THEN 200 ELSE res_vals[1].i)
           /\ w.body = <<ToString(res_vals[2].i) \o "\n">>

C11_Witness ==
    /\ pc = "done" /\ Returned
    /\ method_ft.Out = <<type_int, type_int>>
    /\ out.code = 0 /\ out.res = 1
    /\ res_vals[1].i = 666 /\ res_vals[2].i = 0
    /\ w.status = 666 /\ w.body = <<"0\n">>

\* the slot of each parameter role and of each return role of the Plan
PlanInRoles ==
    IF rev = 2 THEN <<in.ctx, in.req, in.httpReq, in.httpRes>>
    ELSE <<in.ctx, in.req, in.http_req, in.http_res>>

PlanOutRoles == <<out.res, out.err, out.code>>

\* every role has a position or none (-1), and every position has one role
OneToOne(roles, positions) ==
    /\ \A k \in DOMAIN roles : roles[k] \in positions \cup {-1}
    /\ \A p \in positions : Cardinality({k \in DOMAIN roles : roles[k] = p}) = 1

PlanIsOneToOne ==
    reg = "ok" =>
        /\ OneToOne(PlanInRoles, 1..(NumIn(method_ft) - 1))
        /\ OneToOne(PlanOutRoles, 0..(NumOut(method_ft) - 1))

ArgsPopulatedAtCall ==
    pc = "call" =>
        /\ Len(args) = NumIn(method_ft)
        /\ \A k \in 1..NumIn(method_ft) : args[k] # ZeroValue

\* C12: the Plan of a successful classification is one-to-one (each role at
\* most one slot, no slot two roles, every parameter position 1..n-1 and
\* every return position exactly one role), so at invocation every entry of
\* the argument list, the receiver's included, is populated; and no step of
\* a request changes the Plan.
C12_PlanOneToOneAndImmutable ==
    /\ [](PlanIsOneToOne /\ ArgsPopulatedAtCall)
    /\ [][reg = "ok" => (reg' = reg /\ in' = in /\ out' = out)]_vars

C12_Witness ==
    /\ reg = "ok" /\ pc = "call"
    /\ NumIn(method_ft) = 3 /\ NumOut(method_ft) = 2
    /\ in.ctx = 1 /\ in.req = 2
    /\ out.code = 0 /\ out.res = 1
    /\ args[2] = CtxVal /\ args[3].t = type_string
====
